---- MODULE Spec2Model ----
(***************************************************************************)
(* Model of backend/server.py: the AI-configuration endpoints, the job     *)
(* submission endpoint, the background run of a job and the read           *)
(* endpoints, over the two MongoDB collections ai_configs and analyses.    *)
(*                                                                         *)
(* A collection is the sequence of its documents in insertion order.  A    *)
(* store call either takes effect and returns, or raises without effect    *)
(* (db |-> "ok" / "error", an input of the step that makes the call).      *)
(***************************************************************************)
EXTENDS Integers, Sequences, FiniteSets, TLC

VARIABLES
    ai_configs,   \* collection db.ai_configs
    analyses,     \* collection db.analyses
    tasks,        \* background tasks added by analyze_repository, in order
    resp          \* the last HTTP response sent to the client

vars == <<ai_configs, analyses, tasks, resp>>

---------------------------------------------------------------------------
(* Bounds and input domains *)

\* number of submits that reach insert_one (uuid4 ids are 1, 2, ...)
MaxJobs == 2

Users == {"u1", "u2"}

ApiKeys == {"test-key"}

\* outcome of one call to the store
DbOutcomes == {"ok", "error"}

\* str() of an exception raised by the store driver
StoreErrorText == "store error"

---------------------------------------------------------------------------
(* The catalog *)

AI_MODELS ==
    [p \in {"openai", "anthropic", "gemini"} |->
        CASE p = "openai" ->
                ("gpt-4o" :> "GPT-4o") @@ ("gpt-4.1" :> "GPT-4.1") @@
                ("gpt-4o-mini" :> "GPT-4o Mini") @@ ("o3-mini" :> "O3 Mini")
          [] p = "anthropic" ->
                ("claude-sonnet-4-20250514" :> "Claude Sonnet 4") @@
                ("claude-3-5-sonnet-20241022" :> "Claude 3.5 Sonnet") @@
                ("claude-3-5-haiku-20241022" :> "Claude 3.5 Haiku")
          [] p = "gemini" ->
                ("gemini-2.0-flash" :> "Gemini 2.0 Flash") @@
                ("gemini-1.5-pro" :> "Gemini 1.5 Pro") @@
                ("gemini-1.5-flash" :> "Gemini 1.5 Flash")]

CatalogModels == UNION {DOMAIN AI_MODELS[p] : p \in DOMAIN AI_MODELS}

\* request values of POST /ai-config: the catalog and one value outside it
ProviderInputs == DOMAIN AI_MODELS \cup {"invalid_provider"}
ModelInputs == CatalogModels \cup {"invalid_model"}

\* the (provider, model) requests the job specification issues
SampleSelections == {<<"openai", "gpt-4o">>, <<"invalid_provider", "invalid_model">>}

---------------------------------------------------------------------------
(* Store primitives *)

\* positions of the documents of coll whose field has the value val
Matches(coll, field, val) == {i \in 1..Len(coll) : coll[i][field] = val}

Min(S) == CHOOSE x \in S : \A y \in S : x <= y

\* find_one: the first matching document, None when there is none
None == [none |-> TRUE]

FindOne(coll, field, val) ==
    IF Matches(coll, field, val) = {} THEN None
    ELSE coll[Min(Matches(coll, field, val))]

\* replace_one without upsert=True: a first save for a user stores nothing
ReplaceOneUpsert_InsertOnly(coll, field, val, doc) == Append(coll, doc)

ReplaceOneUpsert_NoUpsert(coll, field, val, doc) ==
    IF Matches(coll, field, val) = {} THEN coll
    ELSE [coll EXCEPT ![Min(Matches(coll, field, val))] = doc]

\* replace_one(..., upsert=True): replaces the first match, inserts otherwise
ReplaceOneUpsert(coll, field, val, doc) ==
    IF Matches(coll, field, val) = {} THEN Append(coll, doc)
    ELSE [coll EXCEPT ![Min(Matches(coll, field, val))] = doc]

UpdateOneSet_FirstDoc(coll, field, val, fields) ==
    IF coll = <<>> THEN coll
    ELSE [coll EXCEPT ![1] =
              [k \in DOMAIN @ \cup DOMAIN fields |->
                  IF k \in DOMAIN fields THEN fields[k] ELSE @[k]]]

UpdateOneSet_Restamp(coll, field, val, fields) ==
    IF Matches(coll, field, val) = {} THEN coll
    ELSE [coll EXCEPT ![Min(Matches(coll, field, val))] =
              [k \in DOMAIN @ \cup DOMAIN fields |->
                  IF k \in DOMAIN fields THEN fields[k]
                  ELSE IF k = "created_at" THEN 0 ELSE @[k]]]

\* update_one(..., {"$set": fields}): sets the fields of the first match,
\* does nothing when no document matches
UpdateOneSet(coll, field, val, fields) ==
    IF Matches(coll, field, val) = {} THEN coll
    ELSE [coll EXCEPT ![Min(Matches(coll, field, val))] =
              [k \in DOMAIN @ \cup DOMAIN fields |->
                  IF k \in DOMAIN fields THEN fields[k] ELSE @[k]]]

---------------------------------------------------------------------------
(* HTTP layer *)

\* Texts are sequences of their pieces, so that a prefix can be put in front.

\* raise HTTPException(status_code, detail)
HTTPException(code, detail) ==
    [raised |-> TRUE, http |-> TRUE, status |-> code, detail |-> <<detail>>]

\* an exception that is no HTTPException, with str(e) = text
Raise(text) == [raised |-> TRUE, http |-> FALSE, status |-> 0, detail |-> text]

\* an exception of the store driver
StoreError == Raise(<<StoreErrorText>>)

Return(body) == [raised |-> FALSE, body |-> body]

CodeText(code) ==
    CASE code = 400 -> "400: " [] code = 404 -> "404: " [] OTHER -> "500: "

\* str(e); of an HTTPException it is "<code>: <detail>"
StrOf(e) == IF e.http THEN <<CodeText(e.status)>> \o e.detail ELSE e.detail

\* try: ... except Exception as e: raise HTTPException(500, prefix + str(e))
\* HTTPException is an Exception, so one raised in the body is caught as well
TryExcept500(outcome, prefix) ==
    IF outcome.raised
    THEN [status |-> 500, detail |-> <<prefix>> \o StrOf(outcome)]
    ELSE [status |-> 200, body |-> outcome.body]

---------------------------------------------------------------------------
(* POST /api/ai-config *)

ValidSelection(provider, model) ==
    provider \in DOMAIN AI_MODELS /\ model \in DOMAIN AI_MODELS[provider]

\* config_doc without created_at, which nothing reads
ConfigDoc(user_id, provider, model, api_key) ==
    [user_id |-> user_id, provider |-> provider, model |-> model, api_key |-> api_key]

\* the body of the handler's try block
SaveBody(user_id, provider, model, db) ==
    IF ~ValidSelection(provider, model)
    THEN HTTPException(400, "Invalid AI model selection")
    ELSE IF db = "error" THEN StoreError
    ELSE Return([message |-> "AI configuration saved successfully"])

\* the write without the catalog check in front of it
SaveWrites_Unchecked(user_id, provider, model, db) == db = "ok"

\* whether replace_one is reached and stores the document
SaveWrites(user_id, provider, model, db) ==
    ValidSelection(provider, model) /\ db = "ok"

save_ai_config(user_id, provider, model, api_key, db) ==
    /\ ai_configs' =
          IF SaveWrites(user_id, provider, model, db)
          THEN ReplaceOneUpsert(ai_configs, "user_id", user_id,
                                ConfigDoc(user_id, provider, model, api_key))
          ELSE ai_configs
    /\ resp' = [op |-> "save_ai_config", user_id |-> user_id,
                provider |-> provider, model |-> model]
               @@ TryExcept500(SaveBody(user_id, provider, model, db),
                               "Failed to save configuration: ")
    /\ UNCHANGED <<analyses, tasks>>

---------------------------------------------------------------------------
(* GET /api/ai-config/{user_id} *)

GetConfigBody(user_id, db) ==
    IF db = "error" THEN StoreError
    ELSE LET config == FindOne(ai_configs, "user_id", user_id) IN
         IF config = None THEN Return([configured |-> FALSE])
         ELSE IF ~ValidSelection(config.provider, config.model)
         THEN Raise(<<"KeyError">>)
         ELSE Return([configured |-> TRUE,
                      provider |-> config.provider,
                      model |-> config.model,
                      model_name |-> AI_MODELS[config.provider][config.model]])

get_ai_config(user_id, db) ==
    /\ resp' = [op |-> "get_ai_config", user_id |-> user_id]
               @@ TryExcept500(GetConfigBody(user_id, db),
                               "Failed to get configuration: ")
    /\ UNCHANGED <<ai_configs, analyses, tasks>>

---------------------------------------------------------------------------
(* fetch_github_repo *)

\* A URL is the sequence of its pieces; "/" is a piece of its own, every
\* other piece holds no "/".
GitHubUrl == <<"https:", "/", "/", "github.com", "/", "octocat", "/", "hello">>
OtherHostUrl == <<"https:", "/", "/", "invalid-repo-url.com", "/", "test", "/", "test">>

RepoUrls == {GitHubUrl, OtherHostUrl}

\* repo_url.replace('.git', ''): every occurrence goes
ReplaceDotGit(url) == SelectSeq(url, LAMBDA piece : piece # ".git")

\* the longest run of pieces other than "/" that starts at position i
RECURSIVE RunFrom(_, _)
RunFrom(url, i) ==
    IF i > Len(url) \/ url[i] = "/" THEN <<>>
    ELSE <<url[i]>> \o RunFrom(url, i + 1)

\* whether github\.com/([^/]+)/([^/]+) matches at position i
MatchesAt(url, i) ==
    /\ i + 2 <= Len(url)
    /\ url[i] = "github.com"
    /\ url[i + 1] = "/"
    /\ RunFrom(url, i + 2) # <<>>
    /\ LET j == i + 2 + Len(RunFrom(url, i + 2)) IN
          /\ j <= Len(url)
          /\ url[j] = "/"
          /\ RunFrom(url, j + 1) # <<>>

\* re.search: the leftmost match; its two groups, or None
ReSearch(url) ==
    LET at == {i \in 1..Len(url) : MatchesAt(url, i)} IN
    IF at = {} THEN None
    ELSE LET i == Min(at)
             owner == RunFrom(url, i + 2)
         IN [owner |-> owner, repo |-> RunFrom(url, i + 3 + Len(owner))]

code_extensions ==
    {".py", ".js", ".jsx", ".ts", ".tsx", ".java", ".cpp", ".c", ".go", ".rs",
     ".php", ".rb", ".swift", ".kt"}

\* str.lower() on the extensions the trees below use
Lower(ext) ==
    CASE ext = ".PY" -> ".py"
      [] ext = ".JS" -> ".js"
      [] ext = ".MD" -> ".md"
      [] OTHER -> ext

\* ext[1:]
DropDot(ext) ==
    CASE ext = ".py" -> "py" [] ext = ".js" -> "js" [] ext = ".jsx" -> "jsx"
      [] ext = ".ts" -> "ts" [] ext = ".tsx" -> "tsx" [] ext = ".java" -> "java"
      [] ext = ".cpp" -> "cpp" [] ext = ".c" -> "c" [] ext = ".go" -> "go"
      [] ext = ".rs" -> "rs" [] ext = ".php" -> "php" [] ext = ".rb" -> "rb"
      [] ext = ".swift" -> "swift" [] ext = ".kt" -> "kt"
      [] OTHER -> "text"

\* limits of fetch_github_repo
MaxContent == 5000
MaxFiles == 20

\* A tree entry: its path (directory, stem, extension as os.path.splitext
\* splits it), its type, the length of its decoded content, and what the
\* content call does: "ok", "status" (response not 200), "encoding" (payload
\* not base64) or "raise" (the request or the decoding raises).
Entry(dir, stem, ext, type, size, get) ==
    [path |-> [dir |-> dir, stem |-> stem, ext |-> ext],
     type |-> type, size |-> size, get |-> get]

SampleTree ==
    <<Entry("", "src", "", "tree", 0, "ok"),
      Entry("src/", "app", ".py", "blob", 6000, "ok"),
      Entry("src/", "util", ".PY", "blob", 120, "ok"),
      Entry("", "README", ".md", "blob", 50, "ok"),
      Entry("web/", "index", ".js", "blob", 250, "ok")>>

\* the same repository with one file whose content call answers 404
SkipTree == [SampleTree EXCEPT ![3].get = "status"]

\* the same repository with one file whose content call raises
RaiseTree == [SampleTree EXCEPT ![5].get = "raise"]

Trees == {<<>>, SampleTree, SkipTree, RaiseTree}

\* replies of the hosting API to the tree request
ApiReplies == {[status |-> 404]} \cup {[status |-> 200, tree |-> t] : t \in Trees}

IsCodeFile_CaseSensitive(item) ==
    item.type = "blob" /\ item.path.ext \in code_extensions

IsCodeFile(item) == item.type = "blob" /\ Lower(item.path.ext) \in code_extensions

SourceFile(item) ==
    [path |-> item.path,
     content |-> IF item.size < MaxContent THEN item.size ELSE MaxContent,
     language |-> DropDot(Lower(item.path.ext))]

\* the loop over tree_data['tree']: the files appended, in tree order
RECURSIVE FetchFiles(_)
FetchFiles(tree) ==
    IF tree = <<>> THEN <<>>
    ELSE IF IsCodeFile(Head(tree)) /\ Head(tree).get = "ok"
    THEN <<SourceFile(Head(tree))>> \o FetchFiles(Tail(tree))
    ELSE FetchFiles(Tail(tree))

\* whether a content call of the loop raises
LoopRaises(tree) ==
    \E i \in 1..Len(tree) : IsCodeFile(tree[i]) /\ tree[i].get = "raise"

Take_All(seq, n) == seq

Take(seq, n) == IF Len(seq) <= n THEN seq ELSE SubSeq(seq, 1, n)

TotalFiles_AfterCut(files) == Len(Take(files, MaxFiles))

\* len(files)
TotalFiles(files) == Len(files)

FetchErrorPrefix == "Failed to fetch repository: "

fetch_github_repo(repo_url, api) ==
    LET match == ReSearch(ReplaceDotGit(repo_url)) IN
    IF match = None
    THEN Raise(<<FetchErrorPrefix, "Invalid GitHub repository URL">>)
    ELSE IF api.status # 200
    THEN Raise(<<FetchErrorPrefix, "Repository not found or not accessible">>)
    ELSE IF LoopRaises(api.tree)
    THEN Raise(<<FetchErrorPrefix, "content request failed">>)
    ELSE LET files == FetchFiles(api.tree) IN
         Return([owner |-> match.owner, repo |-> match.repo,
                 files |-> Take(files, MaxFiles),
                 total_files |-> TotalFiles(files)])

---------------------------------------------------------------------------
(* analyze_with_ai *)

\* lang.upper()
Upper(lang) ==
    CASE lang = "py" -> "PY" [] lang = "js" -> "JS" [] lang = "jsx" -> "JSX"
      [] lang = "ts" -> "TS" [] lang = "tsx" -> "TSX" [] lang = "java" -> "JAVA"
      [] lang = "cpp" -> "CPP" [] lang = "c" -> "C" [] lang = "go" -> "GO"
      [] lang = "rs" -> "RS" [] lang = "php" -> "PHP" [] lang = "rb" -> "RB"
      [] lang = "swift" -> "SWIFT" [] lang = "kt" -> "KT"
      [] OTHER -> lang

\* files per language card
MaxLangFiles == 3
ArchSnippet == 200
FileSnippet == 300

LanguagesOf_PerFile(files) == [i \in 1..Len(files) |-> files[i].language]

\* the keys of the dict languages, in insertion order
RECURSIVE LanguagesOf(_)
LanguagesOf(files) ==
    IF files = <<>> THEN <<>>
    ELSE LET rest == LanguagesOf(SubSeq(files, 1, Len(files) - 1))
             lang == files[Len(files)].language
         IN IF \E i \in 1..Len(rest) : rest[i] = lang THEN rest
            ELSE Append(rest, lang)

FilesOf(files, lang) == SelectSeq(files, LAMBDA f : f.language = lang)

FileName(path) == <<path.stem, path.ext>>

Prefix(content, n) == IF content < n THEN content ELSE n

\* a Flashcard without its id, a fresh uuid4 value nothing reads
ArchitectureCard(lang, lang_files) ==
    [front |-> <<"What is the overall architecture of this", Upper(lang)>>,
     back |-> <<Upper(lang), Len(lang_files),
                [i \in 1..Len(Take(lang_files, MaxLangFiles)) |->
                    FileName(lang_files[i].path)]>>,
     category |-> "Architecture",
     difficulty |-> "Medium",
     code_snippet |-> Prefix(lang_files[1].content, ArchSnippet),
     file_path |-> lang_files[1].path]

FileCard(lang, file) ==
    [front |-> <<"What is the purpose of", FileName(file.path)>>,
     back |-> <<file.path, lang>>,
     category |-> <<Upper(lang), "Files">>,
     difficulty |-> "Easy",
     code_snippet |-> Prefix(file.content, FileSnippet),
     file_path |-> file.path]

LanguageCards_AllFiles(lang, lang_files) ==
    <<ArchitectureCard(lang, lang_files)>> \o
    [i \in 1..Len(lang_files) |-> FileCard(lang, lang_files[i])]

LanguageCards(lang, lang_files) ==
    <<ArchitectureCard(lang, lang_files)>> \o
    [i \in 1..Len(Take(lang_files, MaxLangFiles)) |-> FileCard(lang, lang_files[i])]

RECURSIVE CardsFor(_, _)
CardsFor(langs, files) ==
    IF langs = <<>> THEN <<>>
    ELSE LanguageCards(Head(langs), FilesOf(files, Head(langs)))
         \o CardsFor(Tail(langs), files)

\* engine: "ok", or "error" when a statement of the try block raises
analyze_with_ai(files, config, engine) ==
    IF engine = "error"
    THEN Raise(<<"AI analysis failed: ", "engine error">>)
    ELSE Return(CardsFor(LanguagesOf(files), files))

EngineOutcomes == {"ok", "error"}

---------------------------------------------------------------------------
(* POST /api/analyze-repository *)

\* datetime.now() of a new record: the first record's is time 1, a later
\* record's is that of the newest record or one tick later
Now(tick) ==
    IF analyses = <<>> THEN 1 ELSE analyses[Len(analyses)].created_at + tick

\* str(uuid.uuid4()): an id no record has
FreshId == Len(analyses) + 1

AnalysisDoc_Processing(analysis_id, repo_url, user_id, created_at) ==
    [id |-> analysis_id, repo_url |-> repo_url, user_id |-> user_id,
     status |-> "processing", created_at |-> created_at,
     flashcards |-> <<>>, total_files |-> 0, languages |-> {}]

AnalysisDoc(analysis_id, repo_url, user_id, created_at) ==
    [id |-> analysis_id, repo_url |-> repo_url, user_id |-> user_id,
     status |-> "queued", created_at |-> created_at,
     flashcards |-> <<>>, total_files |-> 0, languages |-> {}]

\* the body of the handler's try block; db1 is find_one, db2 is insert_one
SubmitBody(user_id, analysis_id, db1, db2) ==
    IF db1 = "error" THEN StoreError
    ELSE IF FindOne(ai_configs, "user_id", user_id) = None
    THEN HTTPException(400, "AI configuration required. Please configure AI model first.")
    ELSE IF db2 = "error" THEN StoreError
    ELSE Return([analysis_id |-> analysis_id, status |-> "queued",
                 message |-> "Repository analysis started"])

\* whether the handler gets past the configuration check
SubmitAccepted_Unconfigured(user_id, db1) == db1 = "ok"

SubmitAccepted(user_id, db1) ==
    db1 = "ok" /\ FindOne(ai_configs, "user_id", user_id) # None

\* the record is not in the store when the handler returns
SubmitInserts_Deferred(user_id, db1, db2) == FALSE

\* whether insert_one is reached and stores the record
SubmitInserts(user_id, db1, db2) == SubmitAccepted(user_id, db1) /\ db2 = "ok"

\* add_task placed in front of insert_one
SubmitSchedules_BeforeInsert(user_id, db1, db2) == SubmitAccepted(user_id, db1)

\* whether background_tasks.add_task is reached: only after insert_one returned
SubmitSchedules(user_id, db1, db2) == SubmitAccepted(user_id, db1) /\ db2 = "ok"

NewTask(repo_url, user_id, analysis_id) ==
    [repo_url |-> repo_url, user_id |-> user_id, analysis_id |-> analysis_id,
     pc |-> "set_processing", config |-> None, result |-> None, exc |-> None]

\* at most MaxJobs submits get past the configuration check
analyze_repository(user_id, repo_url, tick, db1, db2) ==
    /\ SubmitAccepted(user_id, db1) => Len(analyses) < MaxJobs /\ Len(tasks) < MaxJobs
    /\ analyses' =
          IF SubmitInserts(user_id, db1, db2)
          THEN Append(analyses,
                      AnalysisDoc(FreshId, repo_url, user_id, Now(tick)))
          ELSE analyses
    /\ tasks' =
          IF SubmitSchedules(user_id, db1, db2)
          THEN Append(tasks, NewTask(repo_url, user_id, FreshId))
          ELSE tasks
    /\ resp' = [op |-> "analyze_repository", user_id |-> user_id]
               @@ TryExcept500(SubmitBody(user_id, FreshId, db1, db2),
                               "Failed to start analysis: ")
    /\ UNCHANGED ai_configs

---------------------------------------------------------------------------
(* process_repository_analysis: one action per store or network call *)

\* the task moves to pc with these locals: result holds repo_data and
\* flashcards; exc is the exception the except clause caught (kept after the
\* task ended, for the record of why it failed)
Goto(t, pc, config, result, exc) ==
    [tasks EXCEPT ![t] = [@ EXCEPT !.pc = pc, !.config = config,
                                   !.result = result, !.exc = exc]]

\* lines 236-239
RunSetProcessing(t, db) ==
    /\ tasks[t].pc = "set_processing"
    /\ analyses' =
          IF db = "ok"
          THEN UpdateOneSet(analyses, "id", tasks[t].analysis_id,
                            [status |-> "processing"])
          ELSE analyses
    /\ tasks' =
          IF db = "ok" THEN Goto(t, "load_config", None, None, None)
          ELSE Goto(t, "store_failed", None, None, StoreError)
    /\ UNCHANGED <<ai_configs, resp>>

\* lines 242-244
RunLoadConfig(t, db) ==
    /\ tasks[t].pc = "load_config"
    /\ LET config == FindOne(ai_configs, "user_id", tasks[t].user_id) IN
       tasks' =
          IF db = "error"
          THEN Goto(t, "store_failed", None, None, StoreError)
          ELSE IF config = None
          THEN Goto(t, "store_failed", None, None, Raise(<<"AI configuration not found">>))
          ELSE Goto(t, "fetch", config, None, None)
    /\ UNCHANGED <<ai_configs, analyses, resp>>

\* what lines 253-261 store
ResultFields(repo_data, flashcards) ==
    [status |-> "completed",
     flashcards |-> flashcards,
     total_files |-> repo_data.total_files,
     languages |-> {repo_data.files[i].language : i \in 1..Len(repo_data.files)}]

\* lines 247-250
RunFetchAnalyze(t, api, engine) ==
    /\ tasks[t].pc = "fetch"
    /\ LET repo_data == fetch_github_repo(tasks[t].repo_url, api)
           flashcards == analyze_with_ai(repo_data.body.files, tasks[t].config, engine)
       IN tasks' =
          IF repo_data.raised
          THEN Goto(t, "store_failed", None, None, repo_data)
          ELSE IF flashcards.raised
          THEN Goto(t, "store_failed", None, None, flashcards)
          ELSE Goto(t, "store_completed", tasks[t].config,
                    [repo_data |-> repo_data.body, flashcards |-> flashcards.body],
                    None)
    /\ UNCHANGED <<ai_configs, analyses, resp>>

\* lines 253-261
RunStoreCompleted(t, db) ==
    /\ tasks[t].pc = "store_completed"
    /\ analyses' =
          IF db = "ok"
          THEN UpdateOneSet(analyses, "id", tasks[t].analysis_id,
                            ResultFields(tasks[t].result.repo_data,
                                         tasks[t].result.flashcards))
          ELSE analyses
    /\ tasks' =
          IF db = "ok" THEN Goto(t, "done", None, None, None)
          ELSE Goto(t, "store_failed", None, None, StoreError)
    /\ UNCHANGED <<ai_configs, resp>>

FailedFields_ErrorOnly(exc) == [error |-> StrOf(exc)]

\* what the except clause stores, lines 264-267
FailedFields(exc) == [status |-> "failed", error |-> StrOf(exc)]

\* lines 263-267; an exception of this call leaves the task
RunStoreFailed(t, db) ==
    /\ tasks[t].pc = "store_failed"
    /\ analyses' =
          IF db = "ok"
          THEN UpdateOneSet(analyses, "id", tasks[t].analysis_id,
                            FailedFields(tasks[t].exc))
          ELSE analyses
    /\ tasks' =
          IF db = "ok" THEN Goto(t, "done", None, None, tasks[t].exc)
          ELSE Goto(t, "crashed", None, None, tasks[t].exc)
    /\ UNCHANGED <<ai_configs, resp>>

---------------------------------------------------------------------------
(* GET /api/analysis/{analysis_id} *)

\* dict.get(key, default)
DictGet(doc, key, default) == IF key \in DOMAIN doc THEN doc[key] ELSE default

Snapshot(analysis) ==
    [id |-> analysis.id,
     repo_url |-> analysis.repo_url,
     status |-> analysis.status,
     created_at |-> analysis.created_at,
     flashcards |-> DictGet(analysis, "flashcards", <<>>),
     total_files |-> DictGet(analysis, "total_files", 0),
     languages |-> DictGet(analysis, "languages", {}),
     error |-> DictGet(analysis, "error", None)]

GetAnalysisBody(analysis_id, db) ==
    IF db = "error" THEN StoreError
    ELSE LET analysis == FindOne(analyses, "id", analysis_id) IN
         IF analysis = None THEN HTTPException(404, "Analysis not found")
         ELSE Return(Snapshot(analysis))

get_analysis(analysis_id, db) ==
    /\ resp' = [op |-> "get_analysis", analysis_id |-> analysis_id]
               @@ TryExcept500(GetAnalysisBody(analysis_id, db),
                               "Failed to get analysis: ")
    /\ UNCHANGED <<ai_configs, analyses, tasks>>

\* ids a client asks for: those of the records and ids of no record
IdInputs == 1..MaxJobs

---------------------------------------------------------------------------
(* GET /api/user-analyses/{user_id} *)

\* to_list(50)
ListLimit == 50

\* the order the store may give to documents of equal created_at: nothing in
\* the query fixes it
TieBreaks == {"first", "last"}

Without(seq, i) == [k \in 1..(Len(seq) - 1) |-> IF k < i THEN seq[k] ELSE seq[k + 1]]

\* the position sort("created_at", -1) puts first
Newest(docs, tie) ==
    LET top == {i \in 1..Len(docs) :
                   \A j \in 1..Len(docs) : docs[j].created_at <= docs[i].created_at}
    IN  IF tie = "first" THEN Min(top)
        ELSE CHOOSE i \in top : \A j \in top : j <= i

SortByCreatedDesc_Unsorted(docs, tie) == docs

RECURSIVE SortByCreatedDesc(_, _)
SortByCreatedDesc(docs, tie) ==
    IF docs = <<>> THEN <<>>
    ELSE LET i == Newest(docs, tie) IN
         <<docs[i]>> \o SortByCreatedDesc(Without(docs, i), tie)

\* find({"user_id": user_id}, {"_id": 0})
FindByUser(user_id) == SelectSeq(analyses, LAMBDA d : d.user_id = user_id)

GetUserAnalysesBody(user_id, db, tie) ==
    IF db = "error" THEN StoreError
    ELSE Return([analyses |->
                    Take(SortByCreatedDesc(FindByUser(user_id), tie), ListLimit)])

get_user_analyses(user_id, db, tie) ==
    /\ resp' = [op |-> "get_user_analyses", user_id |-> user_id]
               @@ TryExcept500(GetUserAnalysesBody(user_id, db, tie),
                               "Failed to get analyses: ")
    /\ UNCHANGED <<ai_configs, analyses, tasks>>

---------------------------------------------------------------------------

Init ==
    /\ ai_configs = <<>>
    /\ analyses = <<>>
    /\ tasks = <<>>
    /\ resp = [op |-> "none", status |-> 0]

\* the configuration endpoints alone, over the whole catalog
NextConfig ==
    \/ \E u \in Users, p \in ProviderInputs, m \in ModelInputs,
          k \in ApiKeys, db \in DbOutcomes :
          save_ai_config(u, p, m, k, db)
    \/ \E u \in Users, db \in DbOutcomes : get_ai_config(u, db)

SpecConfig == Init /\ [][NextConfig]_vars

Run ==
    \E t \in 1..Len(tasks) :
        \/ \E db \in DbOutcomes : RunSetProcessing(t, db)
        \/ \E db \in DbOutcomes : RunLoadConfig(t, db)
        \/ \E api \in ApiReplies, engine \in EngineOutcomes : RunFetchAnalyze(t, api, engine)
        \/ \E db \in DbOutcomes : RunStoreCompleted(t, db)
        \/ \E db \in DbOutcomes : RunStoreFailed(t, db)

Next ==
    \/ \E u \in Users, sel \in SampleSelections, k \in ApiKeys, db \in DbOutcomes :
          save_ai_config(u, sel[1], sel[2], k, db)
    \/ \E u \in Users, url \in RepoUrls, tick \in {0, 1},
          db1 \in DbOutcomes, db2 \in DbOutcomes :
          analyze_repository(u, url, tick, db1, db2)
    \/ \E id \in IdInputs, db \in DbOutcomes : get_analysis(id, db)
    \/ Run

Spec == Init /\ [][Next]_vars

---------------------------------------------------------------------------
(* The listing over stores of many jobs *)

\* jobs in the store
MaxStored == 52

UserPatterns == {"one", "alternate", "tenth"}
TimePatterns == {"distinct", "pairs", "equal"}

\* who submitted the i-th job
PatternUser(up, i) ==
    CASE up = "one" -> "u1"
      [] up = "alternate" -> IF i % 2 = 1 THEN "u1" ELSE "u2"
      [] OTHER -> IF i % 10 = 0 THEN "u2" ELSE "u1"

\* the clock when the i-th job was submitted: it never runs backwards
PatternTime(tp, i) ==
    CASE tp = "distinct" -> i
      [] tp = "pairs" -> (i + 1) \div 2
      [] OTHER -> 1

\* the state after n accepted submissions, before any of the runs started
InitList ==
    /\ ai_configs = <<ConfigDoc("u1", "openai", "gpt-4o", "test-key"),
                      ConfigDoc("u2", "openai", "gpt-4o", "test-key")>>
    /\ \E n \in 0..MaxStored, up \in UserPatterns, tp \in TimePatterns :
          /\ analyses = [i \in 1..n |->
                 AnalysisDoc(i, GitHubUrl, PatternUser(up, i), PatternTime(tp, i))]
          /\ tasks = [i \in 1..n |-> NewTask(GitHubUrl, PatternUser(up, i), i)]
    /\ resp = [op |-> "none", status |-> 0]

NextList ==
    \E u \in Users, db \in DbOutcomes, tie \in TieBreaks : get_user_analyses(u, db, tie)

SpecList == InitList /\ [][NextList]_vars

---------------------------------------------------------------------------
(* All six endpoints and the runs *)

NextAll ==
    \/ \E u \in Users, k \in ApiKeys, db \in DbOutcomes :
          save_ai_config(u, "openai", "gpt-4o", k, db)
    \/ \E u \in Users, tick \in {0, 1}, db1 \in DbOutcomes, db2 \in DbOutcomes :
          analyze_repository(u, GitHubUrl, tick, db1, db2)
    \/ \E id \in IdInputs, db \in DbOutcomes : get_analysis(id, db)
    \/ Run
    \/ \E u \in Users, db \in DbOutcomes : get_ai_config(u, db)
    \/ \E u \in Users, db \in DbOutcomes, tie \in TieBreaks : get_user_analyses(u, db, tie)

SpecAll == Init /\ [][NextAll]_vars

---------------------------------------------------------------------------
(* Fetch and analysis over repositories of many files *)

\* entries of a tree
MaxTree == 23

Profiles == {"python", "mixed", "skips", "late", "raise", "langs"}

ExtCycle ==
    <<".py", ".js", ".jsx", ".ts", ".tsx", ".java", ".cpp", ".c", ".go", ".rs",
      ".php", ".rb", ".swift", ".kt">>

\* the i-th entry of the tree of a profile; its path is the number i
ProfileEntry(p, i) ==
    LET name == ToString(i) IN
    CASE p = "python" -> Entry("", name, ".py", "blob", 400 * i, "ok")
      [] p = "mixed" ->
            CASE i % 4 = 0 -> Entry("", name, "", "tree", 0, "ok")
              [] i % 4 = 1 -> Entry("lib/", name, ".py", "blob", 400 * i, "ok")
              [] i % 4 = 2 -> Entry("lib/", name, ".JS", "blob", 100 * i, "ok")
              [] OTHER -> Entry("lib/", name, ".md", "blob", 10, "ok")
      [] p = "skips" ->
            CASE i % 3 = 0 -> Entry("", name, ".py", "blob", 100, "status")
              [] i % 3 = 1 -> Entry("", name, ".ts", "blob", 100, "ok")
              [] OTHER -> Entry("", name, ".go", "blob", 100, "encoding")
      [] p = "late" ->
            CASE i = 3 -> Entry("", name, ".py", "blob", 100, "status")
              [] i > 21 -> Entry("", name, ".rs", "blob", 100, "ok")
              [] OTHER -> Entry("", name, ".py", "blob", 100, "ok")
      [] p = "raise" ->
            IF i = 2 THEN Entry("", name, ".py", "blob", 100, "raise")
            ELSE Entry("", name, ".js", "blob", 100, "ok")
      [] OTHER -> Entry("", name, ExtCycle[((i - 1) % 14) + 1], "blob", 250 * i, "ok")

TreeOf(p, n) == [i \in 1..n |-> ProfileEntry(p, i)]

FetchReplies ==
    ApiReplies \cup
    {[status |-> 200, tree |-> TreeOf(p, n)] : p \in Profiles, n \in 1..MaxTree}

Scheme == <<"https:", "/", "/">>

\* repo_url values of a request: a piece is a part of the text that
\* replace('.git', '') and the pattern take or leave as a whole
FetchUrls ==
    {GitHubUrl,
     GitHubUrl \o <<".git">>,
     OtherHostUrl,
     Scheme \o <<"github.com", "/", "octocat", "/", "my", ".git", "hub.io">>,
     Scheme \o <<"github.com", "/", "octocat">>,
     Scheme \o <<"github.com", "/", "octocat", "/", "hello", "/", "tree", "/", "main">>,
     Scheme \o <<"example.org", "/", "github.com", "/", "octocat", "/", "hello">>}

\* a configured user's job whose run has set it processing and loaded the
\* configuration; api is the reply the hosting API gives to this run
InitFetch ==
    /\ ai_configs = <<ConfigDoc("u1", "openai", "gpt-4o", "test-key")>>
    /\ \E api \in FetchReplies, url \in FetchUrls :
          /\ analyses = <<[AnalysisDoc(1, url, "u1", 1) EXCEPT !.status = "processing"]>>
          /\ tasks = <<[NewTask(url, "u1", 1) EXCEPT
                           !.pc = "fetch", !.config = ai_configs[1]]
                       @@ [api |-> api]>>
    /\ resp = [op |-> "analyze_repository", user_id |-> "u1", status |-> 200,
               body |-> [analysis_id |-> 1, status |-> "queued",
                         message |-> "Repository analysis started"]]

NextFetch ==
    \/ \E engine \in EngineOutcomes : RunFetchAnalyze(1, tasks[1].api, engine)
    \/ \E db \in DbOutcomes : RunStoreCompleted(1, db)
    \/ \E db \in DbOutcomes : RunStoreFailed(1, db)

SpecFetch == InitFetch /\ [][NextFetch]_vars

---------------------------------------------------------------------------
(* Properties *)

JobOf(t) == FindOne(analyses, "id", tasks[t].analysis_id)

Ended(t) == tasks[t].pc \in {"done", "crashed"}

Terminal == {"completed", "failed"}

JobStatuses == {"queued", "processing", "completed", "failed"}

StatusOrder ==
    {<<"queued", "processing">>, <<"processing", "completed">>,
     <<"processing", "failed">>}

\* C1: the status of a job changes only along queued -> processing ->
\* completed | failed: no step changes the status of a completed or failed
\* job, and none takes a job from queued to completed or failed, also when a
\* store write of the run raises.
C1_StatusOrder ==
    [][\A i \in 1..Len(analyses) :
          \/ analyses'[i].status = analyses[i].status
          \/ <<analyses[i].status, analyses'[i].status>> \in StatusOrder]_vars

\* C2: every job of a successful submit reaches completed or failed; stated
\* on the end of its run, the only execution that writes the job: once the
\* run has ended (returned, or left by an exception), the job is terminal.
C2_EndedRunIsTerminal ==
    \A t \in 1..Len(tasks) : Ended(t) => JobOf(t).status \in Terminal

\* the run failed in the configuration lookup, the fetcher or the engine
PipelineFailure(exc) ==
    /\ exc # None
    /\ exc.detail[1] \in {"AI configuration not found", FetchErrorPrefix,
                           "AI analysis failed: "}

\* C3: when the run fails in the configuration lookup, in the fetcher or in
\* the engine, the job ends failed with a non-empty error and with empty
\* flashcards, total_files 0 and empty languages.
C3_FailureRecorded ==
    \A t \in 1..Len(tasks) :
        Ended(t) /\ PipelineFailure(tasks[t].exc) =>
            /\ JobOf(t).status = "failed"
            /\ "error" \in DOMAIN JobOf(t)
            /\ JobOf(t).error # <<>>
            /\ JobOf(t).flashcards = <<>>
            /\ JobOf(t).total_files = 0
            /\ JobOf(t).languages = {}

Submitted(id) == \E t \in 1..Len(tasks) : tasks[t].analysis_id = id

NotStarted(id) ==
    \A t \in 1..Len(tasks) :
        tasks[t].analysis_id = id => tasks[t].pc = "set_processing"

\* C4 as claimed: the GET that follows a successful submit, for the id it
\* returned, finds the record with status queued (the store answering).
C4_QueuedAfterSubmit ==
    [][/\ resp.op = "analyze_repository"
       /\ resp.status = 200
       /\ get_analysis(resp.body.analysis_id, "ok")
       => resp'.status = 200 /\ resp'.body.status = "queued"]_vars

\* C4 as amended: a record is in the store when its run is scheduled and
\* when submit returns its id; a GET by a submitted id (the store answering)
\* finds the record, with status queued as long as the run has not started
\* and otherwise with any of the four statuses.
C4_VisibleAfterSubmit ==
    /\ [](\A t \in 1..Len(tasks) : JobOf(t) # None)
    /\ []((resp.op = "analyze_repository" /\ resp.status = 200)
            => FindOne(analyses, "id", resp.body.analysis_id) # None)
    /\ [][/\ resp'.op = "get_analysis"
           /\ Submitted(resp'.analysis_id)
           /\ get_analysis(resp'.analysis_id, "ok")
           => /\ resp'.status = 200
              /\ resp'.body.id = resp'.analysis_id
              /\ resp'.body.status \in JobStatuses
              /\ NotStarted(resp'.analysis_id) => resp'.body.status = "queued"]_vars

\* a GET after a submit answered "processing"
C4_Witness ==
    /\ resp.op = "get_analysis"
    /\ resp.status = 200
    /\ Submitted(resp.analysis_id)
    /\ resp.body.status = "processing"

\* C5: a submit for a user with no stored configuration (the store
\* answering) is answered with status 400.
C5_NoConfigIs400 ==
    [][\A url \in RepoUrls, tick \in {0, 1}, db2 \in DbOutcomes :
          /\ resp'.op = "analyze_repository"
          /\ FindOne(ai_configs, "user_id", resp'.user_id) = None
          /\ analyze_repository(resp'.user_id, url, tick, "ok", db2)
          => resp'.status = 400]_vars

\* C6: a submit that is not answered with success leaves the job records
\* and the scheduled runs as they were: a step that changes either is not a
\* submit answered with another status than 200.
C6_RejectedSubmitFrame ==
    [][(analyses' # analyses \/ tasks' # tasks) =>
          ~ /\ resp'.op = "analyze_repository"
            /\ resp'.status # 200
            /\ \E url \in RepoUrls, tick \in {0, 1},
                  db1 \in DbOutcomes, db2 \in DbOutcomes :
                  analyze_repository(resp'.user_id, url, tick, db1, db2)]_vars

\* a submit of a user with no configuration was rejected while another
\* user's job is being processed
C6_Witness ==
    /\ resp.op = "analyze_repository"
    /\ resp.status # 200
    /\ FindOne(ai_configs, "user_id", resp.user_id) = None
    /\ \E t \in 1..Len(tasks) : JobOf(t).status = "processing"

\* C7: save_ai_config with a provider outside the catalog, or a model
\* outside the provider's entry, is answered with status 400.
C7_InvalidSelectionIs400 ==
    (resp.op = "save_ai_config" /\ ~ValidSelection(resp.provider, resp.model))
        => resp.status = 400

StoredSelectionsValid ==
    \A i \in 1..Len(ai_configs) :
        ValidSelection(ai_configs[i].provider, ai_configs[i].model)

\* C8: a save_ai_config whose selection is not in the catalog leaves the
\* configuration store as it was; every stored configuration has its model
\* in the catalog entry of its provider, and no get_ai_config fails in the
\* catalog lookup of model_name.
C8_InvalidSaveWritesNothing ==
    /\ []StoredSelectionsValid
    /\ []((resp.op = "get_ai_config" /\ resp.status # 200)
            => resp.detail = <<"Failed to get configuration: ", StoreErrorText>>)
    /\ [][\A k \in ApiKeys, db \in DbOutcomes :
             /\ resp'.op = "save_ai_config"
             /\ ~ValidSelection(resp'.provider, resp'.model)
             /\ save_ai_config(resp'.user_id, resp'.provider, resp'.model, k, db)
             => ai_configs' = ai_configs]_vars

\* an invalid save was answered while its user has a configuration
C8_Witness ==
    /\ resp.op = "save_ai_config"
    /\ ~ValidSelection(resp.provider, resp.model)
    /\ FindOne(ai_configs, "user_id", resp.user_id) # None

\* C9: get_ai_config right after a successful save_ai_config for the same
\* user (the store answering) returns configured true with the provider and
\* model saved and the catalog's display name of the pair.
C9_SaveThenGet ==
    [][/\ resp.op = "save_ai_config"
       /\ resp.status = 200
       /\ get_ai_config(resp.user_id, "ok")
       => /\ resp'.status = 200
          /\ resp'.body.configured
          /\ resp'.body.provider = resp.provider
          /\ resp'.body.model = resp.model
          /\ resp'.body.model_name = AI_MODELS[resp.provider][resp.model]]_vars

\* a get answered with a saved configuration while both users have one
C9_Witness ==
    /\ resp.op = "get_ai_config"
    /\ resp.status = 200
    /\ resp.body.configured
    /\ resp.body.model_name = "Gemini 1.5 Pro"
    /\ Len(ai_configs) = 2

\* C10: get_analysis for an id of no record (the store answering) is
\* answered with status 404 and changes nothing.
C10_UnknownIdIs404 ==
    [][/\ resp'.op = "get_analysis"
       /\ FindOne(analyses, "id", resp'.analysis_id) = None
       /\ get_analysis(resp'.analysis_id, "ok")
       => resp'.status = 404 /\ UNCHANGED <<ai_configs, analyses, tasks>>]_vars


\* the jobs of a user in the store
JobsOfUser(user_id) == {i \in 1..Len(analyses) : analyses[i].user_id = user_id}

Listed == resp.op = "get_user_analyses" /\ resp.status = 200

\* C11: a successful listing for a user returns only stored jobs of that user,
\* each at most once, newest first by created_at, min(N, 50) of the user's N
\* jobs, none of the omitted jobs newer than a returned one; and no listing
\* changes the job store.
C11_ListNewestFifty ==
    /\ [](Listed =>
            LET out == resp.body.analyses
                mine == JobsOfUser(resp.user_id)
                ids == {out[k].id : k \in 1..Len(out)}
            IN  /\ \A k \in 1..Len(out) :
                      /\ out[k].user_id = resp.user_id
                      /\ \E i \in mine : analyses[i] = out[k]
                /\ \A k \in 1..(Len(out) - 1) : out[k].created_at >= out[k + 1].created_at
                /\ Cardinality(ids) = Len(out)
                /\ Len(out) = IF Cardinality(mine) < 50 THEN Cardinality(mine) ELSE 50
                /\ \A i \in mine :
                      analyses[i].id \notin ids =>
                          \A k \in 1..Len(out) : analyses[i].created_at <= out[k].created_at)
    /\ [][resp'.op = "get_user_analyses" => analyses' = analyses]_vars

\* a listing of the 50 newest of more than 50 jobs of a user, submitted at
\* different times
C11_Witness ==
    /\ Listed
    /\ Cardinality(JobsOfUser(resp.user_id)) > 50
    /\ Len(resp.body.analyses) = 50
    /\ resp.body.analyses[1].created_at > resp.body.analyses[50].created_at

---------------------------------------------------------------------------
(* Fetch and analysis: the run of job 1 under SpecFetch *)

\* the tree the hosting API answered with
GivenTree == IF tasks[1].api.status = 200 THEN tasks[1].api.tree ELSE <<>>

\* positions of the entries that are files of an allow-listed extension
Matching ==
    {i \in 1..Len(GivenTree) :
        /\ GivenTree[i].type = "blob"
        /\ Lower(GivenTree[i].path.ext) \in code_extensions}

\* those whose content call answered 200 with a base64 payload
Fetched == {i \in Matching : GivenTree[i].get = "ok"}

\* the k-th smallest element of a set of numbers
Kth(S, k) == CHOOSE i \in S : Cardinality({j \in S : j <= i}) = k

FetchReturned == tasks[1].pc = "store_completed"

Completed == analyses[1].status = "completed"

ReturnedFiles == tasks[1].result.repo_data.files

LanguageTags ==
    {"py", "js", "jsx", "ts", "tsx", "java", "cpp", "c", "go", "rs", "php", "rb",
     "swift", "kt"}

\* C13: the files fetch returns are the first 20 (or all, when fewer) of the
\* entries that are blobs of an allow-listed extension, compared without
\* regard to case, and whose content call succeeded, in tree order; each
\* content is at most 5000 characters (the entry's content cut to 5000) and
\* each language is the lower-cased extension without its dot; no directory
\* and no entry of another extension is among them.
C13_FirstTwentyFetched ==
    FetchReturned =>
        /\ Len(ReturnedFiles) =
               IF Cardinality(Fetched) < 20 THEN Cardinality(Fetched) ELSE 20
        /\ \A k \in 1..Len(ReturnedFiles) :
              LET item == GivenTree[Kth(Fetched, k)]
                  file == ReturnedFiles[k]
              IN  /\ file.path = item.path
                  /\ file.content <= 5000
                  /\ file.content = IF item.size < 5000 THEN item.size ELSE 5000
                  /\ file.language = DropDot(Lower(item.path.ext))
                  /\ file.language \in LanguageTags
                  /\ item.type = "blob"
                  /\ Lower(item.path.ext) \in code_extensions

\* 20 files returned of more than 20 fetched, one of them cut to 5000
\* characters
C13_Witness ==
    /\ FetchReturned
    /\ Cardinality(Fetched) > 20
    /\ Len(ReturnedFiles) = 20
    /\ \E k \in 1..20 : ReturnedFiles[k].content = 5000

\* causes of failure other than the content call of a single file
OtherCauses ==
    {<<"AI configuration not found">>,
     <<FetchErrorPrefix, "Invalid GitHub repository URL">>,
     <<FetchErrorPrefix, "Repository not found or not accessible">>,
     <<"AI analysis failed: ", "engine error">>,
     <<StoreErrorText>>}

\* C14: a content call of a single matching file that fails (response not
\* 200, file unreachable, payload not base64) does not fail the job: a job
\* whose run ended failed has failed for a bad URL, a repository not found,
\* a missing configuration, the engine or the store.
C14_FileFailureNotFatal ==
    tasks[1].pc = "done" /\ analyses[1].status = "failed" =>
        tasks[1].exc.detail \in OtherCauses

Cards == tasks[1].result.flashcards

\* the languages of the files the analysis got
Langs == {ReturnedFiles[i].language : i \in 1..Len(ReturnedFiles)}

\* positions of the files of a language
FilesIn(l) == {i \in 1..Len(ReturnedFiles) : ReturnedFiles[i].language = l}

\* file cards of a language
Shown(l) == IF Cardinality(FilesIn(l)) < 3 THEN Cardinality(FilesIn(l)) ELSE 3

RECURSIVE CardCount(_)
CardCount(ls) ==
    IF ls = {} THEN 0
    ELSE LET l == CHOOSE x \in ls : TRUE IN 1 + Shown(l) + CardCount(ls \ {l})

\* where the cards of a language start: after those of the languages seen
\* before it
Start(l) == 1 + CardCount({m \in Langs : Min(FilesIn(m)) < Min(FilesIn(l))})

\* C15: the cards of an analysis are, for each distinct language in the order
\* the languages first appear in the files, one "Architecture" card of
\* difficulty "Medium" followed directly by one "Easy" card for each of the
\* first min(3, n) of the language's n files, in file order; their number is
\* the sum of 1 + min(3, n) over the languages, and no files give no cards.
C15_CardsPerLanguage ==
    FetchReturned =>
        /\ Len(Cards) = CardCount(Langs)
        /\ ReturnedFiles = <<>> => Cards = <<>>
        /\ \A l \in Langs :
              /\ Cards[Start(l)].category = "Architecture"
              /\ Cards[Start(l)].difficulty = "Medium"
              /\ \A k \in 1..Shown(l) :
                    /\ Cards[Start(l) + k].difficulty = "Easy"
                    /\ Cards[Start(l) + k].category # "Architecture"
                    /\ Cards[Start(l) + k].file_path =
                          ReturnedFiles[Kth(FilesIn(l), k)].path

\* cards of two languages of more than 3 files each: 1 + 3 cards for each
C15_Witness ==
    /\ FetchReturned
    /\ Cardinality(Langs) = 2
    /\ \A l \in Langs : Cardinality(FilesIn(l)) > 3
    /\ Len(Cards) = 8

\* the language tag of a tree entry
TagOf(i) == DropDot(Lower(GivenTree[i].path.ext))

\* positions of the fetched entries that fetch returns: the first 20
Kept == {i \in Fetched : Cardinality({j \in Fetched : j <= i}) <= 20}

\* C16 as stated: the languages of a completed job are the distinct language
\* tags of all files fetched successfully, also when more than 20 were
\* fetched.
C16_LanguagesOfAllFetched ==
    Completed => analyses[1].languages = {TagOf(i) : i \in Fetched}

\* C16: the languages of a completed job are the distinct language tags of
\* the files fetch returned, the first 20 of the files fetched successfully.
C16_LanguagesOfKept ==
    Completed => analyses[1].languages = {TagOf(i) : i \in Kept}

\* a completed job of a repository whose 21st fetched file is the first of
\* its language
C16_Witness ==
    /\ Completed
    /\ Cardinality(Fetched) > 20
    /\ {TagOf(i) : i \in Fetched} # {TagOf(i) : i \in Kept}
    /\ analyses[1].languages # {}

---------------------------------------------------------------------------
(* Submission and the runs *)

\* C17: submit reports no error of the background run: a submit of a
\* configured user, with any repo_url and the store answering, returns 200
\* with the id of a new job that is queued, has no error and has that
\* repo_url; and a failure the run recorded is on the job as status failed
\* with the error text, while the answer of submit stays what it was.
C17_SubmitReportsNoRunError ==
    /\ [](\A t \in 1..Len(tasks) :
            tasks[t].pc = "done" /\ tasks[t].exc # None =>
                /\ JobOf(t).status = "failed"
                /\ JobOf(t).error = StrOf(tasks[t].exc))
    /\ [][\A url \in RepoUrls, tick \in {0, 1} :
            /\ resp'.op = "analyze_repository"
            /\ FindOne(ai_configs, "user_id", resp'.user_id) # None
            /\ analyze_repository(resp'.user_id, url, tick, "ok", "ok")
            => /\ resp'.status = 200
               /\ resp'.body.status = "queued"
               /\ Len(analyses') = Len(analyses) + 1
               /\ LET job == analyses'[Len(analyses')] IN
                     /\ job.id = resp'.body.analysis_id
                     /\ \A i \in 1..Len(analyses) : analyses[i].id # job.id
                     /\ job.status = "queued"
                     /\ job.repo_url = url
                     /\ "error" \notin DOMAIN job]_vars

\* the job of a submit with a URL of another host has failed in its run
\* with the fetcher's error, after submit answered 200
C17_Witness ==
    \E t \in 1..Len(tasks) :
        /\ tasks[t].repo_url = OtherHostUrl
        /\ tasks[t].pc = "done"
        /\ JobOf(t).status = "failed"
        /\ JobOf(t).error = <<FetchErrorPrefix, "Invalid GitHub repository URL">>

\* the runs scheduled for a job id
RunsOf(id) == {t \in 1..Len(tasks) : tasks[t].analysis_id = id}

\* C18: every job has exactly one run, scheduled by its submit; a run that
\* has ended never moves again; and a step that changes a job's record is a
\* step of the run of that job's id, which has not ended, while every other
\* job's record and every other run stay as they were.
C18_OneRunPerJob ==
    /\ [](\A i \in 1..Len(analyses) :
            /\ Cardinality(RunsOf(analyses[i].id)) = 1
            /\ \A j \in 1..Len(analyses) : analyses[j].id = analyses[i].id => j = i)
    /\ [][/\ \A t \in 1..Len(tasks) : Ended(t) => tasks'[t] = tasks[t]
          /\ \A i \in 1..Len(analyses) :
                analyses'[i] # analyses[i] =>
                    \E t \in RunsOf(analyses[i].id) :
                        /\ ~Ended(t)
                        /\ tasks'[t].pc # tasks[t].pc
                        /\ \A u \in 1..Len(tasks) : u # t => tasks'[u] = tasks[u]
                        /\ \A j \in 1..Len(analyses) : j # i => analyses'[j] = analyses[j]]_vars

\* two jobs whose runs have ended, one failed and one completed
C18_Witness ==
    /\ Len(analyses) = 2
    /\ \A t \in 1..Len(tasks) : tasks[t].pc = "done"
    /\ analyses[1].status = "failed"
    /\ analyses[2].status = "completed"
    /\ "error" \notin DOMAIN analyses[2]
    /\ analyses[1].flashcards = <<>>

---------------------------------------------------------------------------
(* The configuration store *)

SavedOk == resp.op = "save_ai_config" /\ resp.status = 200

\* C19: the store holds at most one configuration for each user; a successful
\* save makes the saving user's configuration the saved provider and model
\* and leaves every other user's configuration as it was; any other step
\* leaves the configurations as they were, so that the stored configuration
\* of a user is the one of the last successful save for that user.
C19_OneConfigPerUser ==
    /\ [](\A u \in Users : Cardinality(Matches(ai_configs, "user_id", u)) <= 1)
    /\ [][IF resp'.op = "save_ai_config" /\ resp'.status = 200
          THEN /\ FindOne(ai_configs', "user_id", resp'.user_id) =
                     ConfigDoc(resp'.user_id, resp'.provider, resp'.model, "test-key")
               /\ \A u \in Users \ {resp'.user_id} :
                     FindOne(ai_configs', "user_id", u) = FindOne(ai_configs, "user_id", u)
          ELSE ai_configs' = ai_configs]_vars

\* the user whose configuration was stored first has just replaced it, while
\* the other user's configuration is a different one
C19_Witness ==
    /\ SavedOk
    /\ Len(ai_configs) = 2
    /\ ai_configs[1].user_id = resp.user_id
    /\ ai_configs[1].model = resp.model
    /\ ai_configs[2].user_id # resp.user_id
    /\ ai_configs[2].provider # resp.provider

---------------------------------------------------------------------------
(* Results and errors by status *)

\* C20: in every state, a job that is queued, processing or failed has empty
\* flashcards, total_files 0 and empty languages, and a job has an error
\* value only when it is failed.
C20_ResultsOnlyWhenCompleted ==
    \A i \in 1..Len(analyses) :
        /\ analyses[i].status \in {"queued", "processing", "failed"} =>
              /\ analyses[i].flashcards = <<>>
              /\ analyses[i].total_files = 0
              /\ analyses[i].languages = {}
        /\ "error" \in DOMAIN analyses[i] => analyses[i].status = "failed"

\* a failed job with its error next to a completed job with its results
C20_Witness ==
    /\ \E i \in 1..Len(analyses) :
          /\ analyses[i].status = "failed"
          /\ "error" \in DOMAIN analyses[i]
    /\ \E i \in 1..Len(analyses) :
          /\ analyses[i].status = "completed"
          /\ analyses[i].flashcards # <<>>
          /\ analyses[i].total_files > 0

---------------------------------------------------------------------------
(* The frame of a job record *)

RunWrites == {"status", "flashcards", "total_files", "languages", "error"}

ReadOps == {"get_analysis", "get_user_analyses", "get_ai_config", "save_ai_config"}

\* C21: no step removes a job record or changes its id, repo_url, user_id or
\* created_at; a step that changes a record changes only status, flashcards,
\* total_files, languages and error, and is a step of a run (it answers no
\* request); a step that answers get, the listing or a configuration request
\* leaves every record as it was.
C21_JobFrame ==
    [][/\ Len(analyses') >= Len(analyses)
       /\ \A i \in 1..Len(analyses) :
             /\ DOMAIN analyses[i] \subseteq DOMAIN analyses'[i]
             /\ DOMAIN analyses'[i] \subseteq DOMAIN analyses[i] \cup {"error"}
             /\ \A k \in DOMAIN analyses[i] \ RunWrites : analyses'[i][k] = analyses[i][k]
             /\ analyses'[i] # analyses[i] =>
                   /\ resp' = resp
                   /\ \E t \in RunsOf(analyses[i].id) : tasks'[t].pc # tasks[t].pc
       /\ resp' # resp /\ resp'.op \in ReadOps => analyses' = analyses]_vars

\* a listing answered with two jobs, one completed and one failed, after
\* their runs wrote them
C21_Witness ==
    /\ Listed
    /\ Len(resp.body.analyses) = 2
    /\ \E k \in 1..2 : resp.body.analyses[k].status = "completed"
    /\ \E k \in 1..2 : resp.body.analyses[k].status = "failed"
    /\ \A i \in 1..Len(analyses) : analyses[i].created_at >= 1

---------------------------------------------------------------------------
(* The repository URL of the run of job 1 under SpecFetch *)

\* the parts of a text between its "/" pieces
RECURSIVE Split(_)
Split(text) ==
    LET first == RunFrom(text, 1) IN
    IF Len(first) = Len(text) THEN <<first>>
    ELSE <<first>> \o Split(SubSeq(text, Len(first) + 2, Len(text)))

\* a name without its ".git" suffix
StripSuffix(name) ==
    IF name # <<>> /\ name[Len(name)] = ".git" THEN SubSeq(name, 1, Len(name) - 1)
    ELSE name

\* the parts of the URL after its scheme
UrlParts == Split(SubSeq(tasks[1].repo_url, 4, Len(tasks[1].repo_url)))

\* the URL is <host>/<owner>/<repo> on the hosting provider, optionally
\* ending in ".git"
WellShaped ==
    /\ Len(UrlParts) = 3
    /\ UrlParts[1] = <<"github.com">>
    /\ UrlParts[2] # <<>>
    /\ StripSuffix(UrlParts[3]) # <<>>

InvalidUrlError == <<FetchErrorPrefix, "Invalid GitHub repository URL">>

\* C22: for a URL of the shape <host>/<owner>/<repo> on the hosting provider,
\* optionally ending in ".git", fetch does not fail with the invalid-URL
\* error and resolves the URL's owner and the URL's repo without its ".git"
\* suffix, nothing else altered; for a URL of another shape fetch never
\* returns and the run fails with the invalid-URL error.
C22_UrlResolved ==
    IF WellShaped
    THEN /\ FetchReturned =>
               /\ tasks[1].result.repo_data.owner = UrlParts[2]
               /\ tasks[1].result.repo_data.repo = StripSuffix(UrlParts[3])
         /\ tasks[1].exc # None => tasks[1].exc.detail # InvalidUrlError
    ELSE /\ ~FetchReturned
         /\ ~Completed
         /\ tasks[1].pc = "done" => tasks[1].exc.detail = InvalidUrlError

---------------------------------------------------------------------------
(* Configurations and the runs *)

Configured == {ai_configs[i].user_id : i \in 1..Len(ai_configs)}

ConfigNotFound == <<"AI configuration not found">>

\* C23: no step removes a stored configuration, so the set of configured
\* users only grows; every job's user is configured, from the submit on; a
\* run that has read the configurations holds its user's configuration; and
\* no run and no job has the error "AI configuration not found".
C23_ConfigNeverMissing ==
    /\ [](\A t \in 1..Len(tasks) :
            /\ tasks[t].user_id \in Configured
            /\ tasks[t].pc \in {"fetch", "store_completed"} =>
                  /\ tasks[t].config # None
                  /\ tasks[t].config.user_id = tasks[t].user_id
            /\ tasks[t].exc # None => tasks[t].exc.detail # ConfigNotFound
            /\ "error" \in DOMAIN JobOf(t) => JobOf(t).error # ConfigNotFound)
    /\ [][/\ Len(ai_configs') >= Len(ai_configs)
          /\ Configured \subseteq Configured']_vars

\* the run of a job of the second user to be configured has read that
\* user's configuration, after the first user saved again
C23_Witness ==
    /\ Len(ai_configs) = 2
    /\ SavedOk
    /\ resp.user_id = ai_configs[1].user_id
    /\ \E t \in 1..Len(tasks) :
          /\ tasks[t].pc = "fetch"
          /\ tasks[t].config = ai_configs[2]

---------------------------------------------------------------------------
(* The stored fields of the completed job 1 under SpecFetch *)

StoredCards == analyses[1].flashcards

ArchitectureCards ==
    {k \in 1..Len(StoredCards) : StoredCards[k].category = "Architecture"}

\* the positions of the Architecture cards of a language: the card names the
\* language in upper case
ArchitectureCardsOf(l) == {k \in ArchitectureCards : StoredCards[k].front[2] = Upper(l)}

\* C24: in a completed job the number of Architecture cards equals the
\* number of languages, each language has exactly one Architecture card,
\* the flashcards are empty exactly when total_files is 0, and the number of
\* languages is at most min(total_files, 20).
C24_CompletedFieldsAgree ==
    Completed =>
        /\ Cardinality(ArchitectureCards) = Cardinality(analyses[1].languages)
        /\ \A l \in analyses[1].languages : Cardinality(ArchitectureCardsOf(l)) = 1
        /\ StoredCards = <<>> <=> analyses[1].total_files = 0
        /\ Cardinality(analyses[1].languages) <= analyses[1].total_files
        /\ Cardinality(analyses[1].languages) <= 20

\* a completed job of more than 20 fetched files in 14 languages
C24_Witness ==
    /\ Completed
    /\ analyses[1].total_files > 20
    /\ Cardinality(analyses[1].languages) = 14
    /\ Cardinality(ArchitectureCards) = 14

====
